---- MODULE Spec2Model ----
(***************************************************************************)
(* Model of src/main.py (spotify-list-maker): the ListMaker pipeline       *)
(* (discover genre playlists, fan saved tracks out to genre playlists,     *)
(* final flush), the lazy caches, the Playlist batcher and the sqlite      *)
(* ledger.  The process is single threaded; pc is its position.            *)
(*                                                                         *)
(* Strings that the code takes apart (playlist names) are sequences of     *)
(* tokens: the prefix "Liked Songs:", the blank " ", and a word.  Catalog  *)
(* ids (track, artist, album, playlist) are whitespace-free, so .strip()   *)
(* leaves them as they are; they are numbers here.                         *)
(*                                                                         *)
(* Spec is main() run up to MaxRuns times over one playlists.sqlite and    *)
(* one remote account; connect() and its sp.me() call precede              *)
(* build_playlists and are part of StartRun.  SpecPlaylist is a client     *)
(* that calls add_track and flush on one Playlist in any order.            *)
(* The process can also be ended from outside while Playlist.flush is      *)
(* between its append and the end of its callback (Kill).                  *)
(* log, appended, failures, kills, delivered and last are history          *)
(* variables: the code does not read them.                                 *)
(***************************************************************************)
EXTENDS Integers, Sequences, FiniteSets, TLC

\* ---------------------------------------------------------------- bounds
MaxRuns == 2          \* runs of main() over one playlists.sqlite
MaxSmall == 2         \* longest saved-track listing of the small libraries
BigExtra == 1         \* tracks beyond one full batch in the large library
MaxClientAdds == 3    \* add_track calls of a direct client beyond one full batch
MaxClientFlush == 2   \* flush() calls a direct client of Playlist makes
MaxFlushAt == 2       \* largest buffer a direct client calls flush() on
MaxFailures == 1      \* remote calls that fail and kills of the process, over all runs
MaxKillRows == 2      \* most ledger rows a killed callback has written

\* ------------------------------------------------------ program constants
SLEEPER == 3
BatchCap == 100
PageLimit == 50
PageStep == 50
playlist_prefix == "Liked Songs:"
Blank == " "

\* ------------------------------------------------------------- the catalog
\* What the remote service answers for sp.artist(id) / sp.album(id).
Artists == 1..2
Albums == 1..4

ArtistGenres(id) ==
  CASE id = 1 -> << >>
    [] id = 2 -> <<"pop">>

AlbumGenres(id) ==
  CASE id = 1 -> << >>
    [] id = 2 -> <<"rock">>
    [] id = 3 -> <<"rock", "pop">>
    [] id = 4 -> <<"rock", "rock">>

Min(a, b) == IF a < b THEN a ELSE b

\* ----------------------------------------------------------------- strings
IsBlank(tok) == tok = Blank

RECURSIVE LStrip(_)
LStrip(s) == IF s # << >> /\ IsBlank(Head(s)) THEN LStrip(Tail(s)) ELSE s

RECURSIVE RStrip(_)
RStrip(s) ==
  IF s # << >> /\ IsBlank(s[Len(s)]) THEN RStrip(SubSeq(s, 1, Len(s) - 1)) ELSE s

\* str.strip()
Strip(s) == RStrip(LStrip(s))

\* str.startswith(self.playlist_prefix)
StartsWithAnything(s, prefix) == Len(s) >= 1

StartsWith(s, prefix) == Len(s) >= 1 /\ s[1] = prefix

\* f"{self.playlist_prefix} {genre}"
PlaylistName(genre) == <<playlist_prefix, Blank, genre>>

\* SpotifyURNMixin.urn: f"spotify:{self.urn_type}:{self.id_}"
Urn(urn_type, id) == <<"spotify", urn_type, id>>

TrackUrn(t) == Urn("track", t)

\* [t.urn for t in self.tracks_to_add]
UrnsButLast(buf) == [i \in 1..(Len(buf) - 1) |-> TrackUrn(buf[i])]

Urns(buf) == [i \in 1..Len(buf) |-> TrackUrn(buf[i])]

VARIABLES
  caller,           \* "ListMaker": main(); "client": direct use of one Playlist
  saved,            \* remote: the user's saved tracks, in listing order
  remotePlaylists,  \* remote: the user's playlists, in listing order
  playlist_track,   \* ledger table playlist_track (rows)
  genreless_track,  \* ledger table genreless_track (rows)
  run,              \* number of the current run of main()
  pc,               \* position of the process
  exc,              \* exception that ended the run, "none" while running
  playlist_cache,   \* PlaylistCache._cache: name -> playlist id
  artist_cache,     \* ArtistCache._cache: id -> Artist
  album_cache,      \* AlbumCache._cache: id -> Album
  tracks_to_add,    \* Playlist.tracks_to_add of every Playlist object, by id
  offset,           \* __generator: offset
  page,             \* __generator: results["items"] of the current page
  idx,              \* __generator: position of the next item in page
  cur,              \* the saved-track entry being processed
  track,            \* the Track constructed from cur
  gi,               \* __add_track_to_playlists: position in t.genres
  pl,               \* __add_track_to_playlists / flush: the playlist at hand
  ret,              \* where the running flush() returns to
  calls,            \* direct client: number of add_track and flush calls made
  log,              \* history: the remote calls and sleeps of this run, in order
  appended,         \* history: the playlist_add_items calls of all runs
  failures,         \* history: number of remote calls that raised, all runs
  kills,            \* history: the kills of the process, all runs
  delivered,        \* history: items the generators yielded in this run
  last              \* history: the last call a direct client made

vars == <<caller, saved, remotePlaylists, playlist_track, genreless_track, run,
          pc, exc, playlist_cache, artist_cache, album_cache, tracks_to_add,
          offset, page, idx, cur, track, gi, pl, ret, calls, log, appended,
          failures, kills, delivered, last>>

remoteVars == <<saved, remotePlaylists>>
ledgerVars == <<playlist_track, genreless_track>>
cacheVars == <<playlist_cache, artist_cache, album_cache>>
genVars == <<offset, page, idx>>
itemVars == <<cur, track, gi>>
clientVars == <<calls, last>>
histVars == <<appended, failures, kills>>

\* ------------------------------------------------------------ the ledger
\* Database.check_playlist_track_exists
CheckExistsSwapped(tbl, playlist_id, track_id) ==
  \E i \in 1..Len(tbl) : tbl[i].playlist_id = track_id /\ tbl[i].track_id = playlist_id

check_playlist_track_exists(tbl, playlist_id, track_id) ==
  \E i \in 1..Len(tbl) : tbl[i].playlist_id = playlist_id /\ tbl[i].track_id = track_id

\* Database.record_playlist_track: the insert; _uc_pid_tid rejects a second
\* row of the pair and the bare except swallows the error.
RecordPlaylistTrackNoConstraint(tbl, playlist_id, track_id) ==
  Append(tbl, [id |-> Len(tbl) + 1, playlist_id |-> playlist_id,
               track_id |-> track_id])

record_playlist_track(tbl, playlist_id, track_id) ==
  IF check_playlist_track_exists(tbl, playlist_id, track_id)
    THEN tbl
    ELSE Append(tbl, [id |-> Len(tbl) + 1, playlist_id |-> playlist_id,
                      track_id |-> track_id])

\* Database.record_genreless_track: the insert; _uc_tid rejects a second row
\* of the track and the bare except swallows the error.
RecordGenrelessNoConstraint(tbl, track_id) ==
  Append(tbl, [id |-> Len(tbl) + 1, track_id |-> track_id])

record_genreless_track(tbl, track_id) ==
  IF \E i \in 1..Len(tbl) : tbl[i].track_id = track_id
    THEN tbl
    ELSE Append(tbl, [id |-> Len(tbl) + 1, track_id |-> track_id])

\* ListMaker.__flush_callback: one record_playlist_track per track, in
\* order.  The loop is written in closed form: the inserts that go through
\* are those that record_playlist_track lets through both against the table
\* as it was and against the rows the earlier tracks of the batch have left
\* in it; the k-th of them gets the next k-th row id.
BatchRows(playlist_id, tracks) ==
  [j \in 1..Len(tracks) |-> [id |-> j, playlist_id |-> playlist_id, track_id |-> tracks[j]]]

InsertedButLast(tbl, playlist_id, tracks) ==
  { i \in 1..(Len(tracks) - 1) :
      LET earlier == BatchRows(playlist_id, SubSeq(tracks, 1, i - 1))
      IN /\ record_playlist_track(tbl, playlist_id, tracks[i]) # tbl
         /\ record_playlist_track(earlier, playlist_id, tracks[i]) # earlier }

Inserted(tbl, playlist_id, tracks) ==
  { i \in 1..Len(tracks) :
      LET earlier == BatchRows(playlist_id, SubSeq(tracks, 1, i - 1))
      IN /\ record_playlist_track(tbl, playlist_id, tracks[i]) # tbl
         /\ record_playlist_track(earlier, playlist_id, tracks[i]) # earlier }

flush_callback(tbl, playlist_id, tracks) ==
  LET S == Inserted(tbl, playlist_id, tracks)
      Nth(k) == CHOOSE i \in S : Cardinality({j \in S : j <= i}) = k
  IN tbl \o [k \in 1..Cardinality(S) |->
               [id |-> Len(tbl) + k, playlist_id |-> playlist_id,
                track_id |-> tracks[Nth(k)]]]

\* ------------------------------------------------------------ the caches
EmptyCache == << >>

\* SpotifyCache.__getitem__: `if _key not in self._cache`
AlwaysMiss(cache, key) == TRUE

CacheMiss(cache, key) == key \notin DOMAIN cache

\* SpotifyCache.__setitem__ and the store in _fetch_item
CacheSet(cache, key, value) ==
  [k \in DOMAIN cache \cup {key} |-> IF k = key THEN value ELSE cache[k]]

\* Track.__set_genres
SetGenresArtistFirst(album_genres, artist_genres) ==
  IF artist_genres # << >> THEN artist_genres ELSE album_genres

SetGenres(album_genres, artist_genres) ==
  IF album_genres # << >> THEN album_genres ELSE artist_genres

\* Playlist.add_track: `if len(self.tracks_to_add) == 100`
BufferEmptyNever(buf) == Len(buf) < 0

\* Playlist.flush: `if len(self.tracks_to_add)` is false
BufferEmpty(buf) == Len(buf) = 0

\* Playlist.add_track: `if len(self.tracks_to_add) == 100`
BatchFullOneLate(buf) == Len(buf) = BatchCap + 1

BatchFull(buf) == Len(buf) = BatchCap

\* ---------------------------------------------------------- the generator
\* What the remote service answers for a listing call with limit and offset.
RemotePage(listing, limit, off) == SubSeq(listing, off + 1, Min(off + limit, Len(listing)))

\* __generator: `offset = offset + 50`
NextOffsetShort(off) == off + PageStep - 1

NextOffset(off) == off + PageStep

\* __generate_liked_playlists_map: the loop body over the items of one page
RECURSIVE CachePlaylists(_, _)
CachePlaylists(cache, items) ==
  IF items = << >> THEN cache
  ELSE LET name == Strip(Head(items).name)
       IN CachePlaylists(IF StartsWith(Strip(name), playlist_prefix)
                           THEN CacheSet(cache, name, Head(items).id)
                           ELSE cache,
                         Tail(items))

\* Playlist.__init__ for every item of a page: an empty tracks_to_add
NewBuffers(bufs, items) ==
  [p \in DOMAIN bufs \cup {items[i].id : i \in 1..Len(items)} |->
     IF p \in DOMAIN bufs THEN bufs[p] ELSE << >>]

\* ---------------------------------------------------------------- history
Ev(op, key, arg, ok) == [run |-> run, op |-> op, key |-> key, arg |-> arg, ok |-> ok]
Sleep == Ev("sleep", SLEEPER, 0, TRUE)

\* A remote call returns or raises; at most MaxFailures calls raise.
Outcomes == IF failures < MaxFailures THEN BOOLEAN ELSE {TRUE}

\* -------------------------------------------------------- initial states
Entry(id, artist, album) == [id |-> id, artist |-> artist, album |-> album]

\* <<artist, album>> of a saved track
EntryShapes == {<<1, 1>>, <<2, 1>>, <<2, 2>>, <<1, 3>>}

\* listings of up to MaxSmall distinct tracks, any artist and album each
SmallLibraries ==
  UNION { { [i \in 1..n |-> Entry(i, f[i][1], f[i][2])] : f \in [1..n -> EntryShapes] }
          : n \in 0..MaxSmall }

\* a listing that carries one track twice
RepeatLibraries == { <<Entry(1, 2, al), Entry(1, 2, al)>> : al \in {1, 2} }

\* listings long enough to fill a batch of one playlist
BigLibrary(n, artist, album) == [i \in 1..n |-> Entry(i, artist, album)]

BigLibraries ==
  { BigLibrary(BatchCap + BigExtra, 2, 2),
    BigLibrary(BatchCap \div 2 + BigExtra, 1, 4) }

\* a listing that fills a batch of the playlist of the artist's genre
PopLibrary == BigLibrary(BatchCap + BigExtra, 2, 1)

\* the user's playlists before the first run: none, or a genre playlist
\* under its exact name, one with a blank before the prefix, one of another
\* kind, and one with the prefix and no blank after it
UserPlaylists ==
  << [id |-> 1, name |-> PlaylistName("rock")],
     [id |-> 2, name |-> <<Blank>> \o PlaylistName("pop")],
     [id |-> 3, name |-> <<"Road trip">>],
     [id |-> 4, name |-> <<playlist_prefix, "pop">>] >>

ExistingPlaylists == { << >>, UserPlaylists }

NoItem == Entry(0, 0, 0)
NoTrack == [id |-> 0, genres |-> << >>]
NoCall == [op |-> "none", buf |-> << >>, logLen |-> 0, rows |-> << >>]

InitCommon ==
  /\ playlist_track = << >>
  /\ genreless_track = << >>
  /\ run = 0
  /\ exc = "none"
  /\ playlist_cache = EmptyCache
  /\ artist_cache = EmptyCache
  /\ album_cache = EmptyCache
  /\ offset = 0
  /\ page = << >>
  /\ idx = 1
  /\ cur = NoItem
  /\ track = NoTrack
  /\ gi = 1
  /\ ret = "none"
  /\ calls = [add |-> 0, flush |-> 0]
  /\ log = << >>
  /\ appended = << >>
  /\ failures = 0
  /\ kills = << >>
  /\ delivered = [playlists |-> << >>, tracks |-> << >>]
  /\ last = NoCall

\* main() has not run yet; playlists.sqlite is empty
Init ==
  /\ caller = "ListMaker"
  /\ \/ saved \in SmallLibraries \cup RepeatLibraries /\ remotePlaylists \in ExistingPlaylists
     \/ saved \in BigLibraries /\ remotePlaylists = << >>
     \/ saved = PopLibrary /\ remotePlaylists = UserPlaylists
  /\ pc = "idle"
  /\ tracks_to_add = EmptyCache
  /\ pl = 0
  /\ InitCommon

\* A client holds one Playlist built as PlaylistCache._fetch_item builds it:
\* Playlist(pl, sp, ListMaker.__flush_callback)
InitPlaylist ==
  /\ caller = "client"
  /\ saved = << >>
  /\ remotePlaylists = << [id |-> 1, name |-> PlaylistName("rock")] >>
  /\ pc = "client"
  /\ tracks_to_add = (1 :> << >>)
  /\ pl = 1
  /\ InitCommon

\* ------------------------------------------------------------- the process
\* An exception leaves build_playlists and main(): the process ends.
Raise(e) == pc' = "exit" /\ exc' = e

\* a remote call raised
RemoteFailureSwallowed ==
  pc' = pc /\ exc' = exc /\ failures' = failures + 1 /\ UNCHANGED kills

RemoteFailure ==
  Raise("RemoteCallFailure") /\ failures' = failures + 1 /\ UNCHANGED kills

\* main(): ListMaker(username), connect(), then build_playlists() begins.
\* The caches and every Playlist object are new; playlists.sqlite is kept.
StartRun ==
  /\ caller = "ListMaker"
  /\ pc \in {"idle", "exit"}
  /\ run < MaxRuns
  /\ run' = run + 1
  /\ pc' = "playlists"
  /\ exc' = "none"
  /\ playlist_cache' = EmptyCache
  /\ artist_cache' = EmptyCache
  /\ album_cache' = EmptyCache
  /\ tracks_to_add' = EmptyCache
  /\ offset' = 0
  /\ page' = << >>
  /\ idx' = 1
  /\ cur' = NoItem
  /\ track' = NoTrack
  /\ gi' = 1
  /\ pl' = 0
  /\ ret' = "none"
  /\ log' = << >>
  /\ delivered' = [playlists |-> << >>, tracks |-> << >>]
  /\ UNCHANGED <<caller, remoteVars, ledgerVars, clientVars, histVars>>

\* build_playlists: __generate_liked_playlists_map(), then
\* __parse_liked_songs(), then __flush()
PhaseAfterLoops(phase) ==
  CASE phase = "playlists" -> "tracks"
    [] phase = "tracks" -> "playlists"

PhaseAfter(phase) ==
  CASE phase = "playlists" -> "tracks"
    [] phase = "tracks" -> "final"

\* __generate_liked_playlists_map: one round of __generator over
\* sp.current_user_playlists, with the loop body for every item of the page
PlaylistsPage ==
  /\ pc = "playlists"
  /\ \E ok \in Outcomes :
       LET items == RemotePage(remotePlaylists, PageLimit, offset)
           call == Ev("page", "playlists", <<PageLimit, offset, IF ok THEN Len(items) ELSE 0>>, ok)
       IN IF ~ok
            THEN /\ RemoteFailure
                 /\ log' = Append(log, call)
                 /\ UNCHANGED <<playlist_cache, tracks_to_add, offset, delivered>>
            ELSE IF Len(items) = 0
              THEN /\ pc' = PhaseAfter("playlists")
                   /\ offset' = 0
                   /\ log' = Append(log, call)
                   /\ UNCHANGED <<exc, failures, kills, playlist_cache, tracks_to_add, delivered>>
              ELSE /\ pc' = "playlists"
                   /\ playlist_cache' = CachePlaylists(playlist_cache, items)
                   /\ tracks_to_add' = NewBuffers(tracks_to_add, items)
                   /\ delivered' = [delivered EXCEPT !.playlists = @ \o items]
                   /\ offset' = NextOffset(offset)
                   /\ log' = log \o <<call, Sleep>>
                   /\ UNCHANGED <<exc, failures, kills>>
  /\ UNCHANGED <<caller, remoteVars, ledgerVars, run, artist_cache, album_cache,
                 page, idx, itemVars, pl, ret, clientVars, appended>>

\* __parse_liked_songs: __generator calls sp.current_user_saved_tracks
TracksPage ==
  /\ pc = "tracks"
  /\ \E ok \in Outcomes :
       LET items == RemotePage(saved, PageLimit, offset)
           call == Ev("page", "tracks", <<PageLimit, offset, IF ok THEN Len(items) ELSE 0>>, ok)
       IN /\ log' = Append(log, call)
          /\ IF ~ok
               THEN RemoteFailure /\ UNCHANGED <<page, idx>>
               ELSE IF Len(items) = 0
                 THEN pc' = PhaseAfter("tracks") /\ UNCHANGED <<exc, failures, kills, page, idx>>
                 ELSE /\ pc' = "next"
                      /\ page' = items
                      /\ idx' = 1
                      /\ UNCHANGED <<exc, failures, kills>>
  /\ UNCHANGED <<caller, remoteVars, ledgerVars, run, cacheVars, tracks_to_add,
                 offset, itemVars, pl, ret, clientVars, appended, delivered>>

\* __generator: `yield from results["items"]` hands out the next item, and
\* after the last one `offset = offset + 50; sleep(SLEEPER)`
NextItem ==
  /\ pc = "next"
  /\ IF idx <= Len(page)
       THEN /\ cur' = page[idx]
            /\ idx' = idx + 1
            /\ delivered' = [delivered EXCEPT !.tracks = Append(@, page[idx])]
            /\ pc' = "artist"
            /\ UNCHANGED <<offset, log>>
       ELSE /\ offset' = NextOffset(offset)
            /\ log' = Append(log, Sleep)
            /\ pc' = "tracks"
            /\ UNCHANGED <<cur, idx, delivered>>
  /\ UNCHANGED <<caller, remoteVars, ledgerVars, run, exc, cacheVars, tracks_to_add,
                 page, track, gi, pl, ret, clientVars, histVars>>

\* Track.__init__ -> __set_artist: self.artist_cache[artist_id]
\* (SpotifyCache.__getitem__, ArtistCache._fetch_item)
GetArtist ==
  /\ pc = "artist"
  /\ IF CacheMiss(artist_cache, cur.artist)
       THEN \E ok \in Outcomes :
              IF ok
                THEN /\ artist_cache' = CacheSet(artist_cache, cur.artist,
                           [id |-> cur.artist, genres |-> ArtistGenres(cur.artist)])
                     /\ log' = log \o <<Ev("artist", cur.artist, 0, TRUE), Sleep>>
                     /\ pc' = "album"
                     /\ UNCHANGED <<exc, failures, kills>>
                ELSE /\ RemoteFailure
                     /\ log' = Append(log, Ev("artist", cur.artist, 0, FALSE))
                     /\ UNCHANGED artist_cache
       ELSE pc' = "album" /\ UNCHANGED <<exc, failures, kills, artist_cache, log>>
  /\ UNCHANGED <<caller, remoteVars, ledgerVars, run, playlist_cache, album_cache,
                 tracks_to_add, genVars, itemVars, pl, ret, clientVars, appended,
                 delivered>>

\* Track.__init__ -> __set_album: self.album_cache[album_id], then
\* self.genres = self.__set_genres()
GetAlbum ==
  /\ pc = "album"
  /\ IF CacheMiss(album_cache, cur.album)
       THEN \E ok \in Outcomes :
              IF ok
                THEN /\ album_cache' = CacheSet(album_cache, cur.album,
                           [id |-> cur.album, genres |-> AlbumGenres(cur.album)])
                     /\ log' = log \o <<Ev("album", cur.album, 0, TRUE), Sleep>>
                     /\ pc' = "fanout"
                     /\ UNCHANGED <<exc, failures, kills>>
                ELSE /\ RemoteFailure
                     /\ log' = Append(log, Ev("album", cur.album, 0, FALSE))
                     /\ UNCHANGED album_cache
       ELSE pc' = "fanout" /\ UNCHANGED <<exc, failures, kills, album_cache, log>>
  /\ IF pc' = "fanout"
       THEN /\ track' = [id |-> cur.id,
                         genres |-> SetGenres(album_cache'[cur.album].genres,
                                              artist_cache[cur.artist].genres)]
            /\ gi' = 1
       ELSE UNCHANGED <<track, gi>>
  /\ UNCHANGED <<caller, remoteVars, ledgerVars, run, playlist_cache, artist_cache,
                 tracks_to_add, genVars, cur, pl, ret, clientVars, appended, delivered>>

\* __add_track_to_playlists raises NoGenreException; __parse_liked_songs
\* catches it and calls database.record_genreless_track(t.id_)
NoGenre ==
  /\ pc = "fanout"
  /\ track.genres = << >>
  /\ genreless_track' = record_genreless_track(genreless_track, track.id)
  /\ pc' = "next"
  /\ UNCHANGED <<caller, remoteVars, playlist_track, run, exc, cacheVars, tracks_to_add,
                 genVars, itemVars, pl, ret, clientVars, log, histVars, delivered>>

\* __add_track_to_playlists: `pl = self.playlist_cache[playlist_name]`
\* (SpotifyCache.__getitem__, PlaylistCache._fetch_item)
LookupPlaylist ==
  /\ pc = "fanout"
  /\ gi <= Len(track.genres)
  /\ LET playlist_name == PlaylistName(track.genres[gi])
         new == [id |-> Len(remotePlaylists) + 1, name |-> playlist_name]
     IN IF CacheMiss(playlist_cache, playlist_name)
          THEN \E ok \in Outcomes :
                 IF ok
                   THEN /\ remotePlaylists' = Append(remotePlaylists, new)
                        /\ playlist_cache' = CacheSet(playlist_cache, playlist_name, new.id)
                        /\ tracks_to_add' = NewBuffers(tracks_to_add, <<new>>)
                        /\ log' = log \o <<Ev("create", playlist_name, new.id, TRUE), Sleep>>
                        /\ pl' = new.id
                        /\ pc' = "check"
                        /\ UNCHANGED <<exc, failures, kills>>
                   ELSE /\ RemoteFailure
                        /\ log' = Append(log, Ev("create", playlist_name, 0, FALSE))
                        /\ UNCHANGED <<remotePlaylists, playlist_cache, tracks_to_add, pl>>
          ELSE /\ pl' = playlist_cache[playlist_name]
               /\ pc' = "check"
               /\ UNCHANGED <<exc, failures, kills, remotePlaylists, playlist_cache,
                              tracks_to_add, log>>
  /\ UNCHANGED <<caller, saved, ledgerVars, run, artist_cache, album_cache, genVars,
                 itemVars, ret, clientVars, appended, delivered>>

\* __add_track_to_playlists: the ledger gate, then Playlist.add_track up to
\* the call of self.flush()
CheckAndAdd ==
  /\ pc = "check"
  /\ IF check_playlist_track_exists(playlist_track, pl, track.id)
       THEN /\ gi' = gi + 1
            /\ pc' = "fanout"
            /\ UNCHANGED <<tracks_to_add, ret>>
       ELSE LET buf == Append(tracks_to_add[pl], track.id)
            IN /\ tracks_to_add' = [tracks_to_add EXCEPT ![pl] = buf]
               /\ IF BatchFull(buf)
                    THEN pc' = "flush" /\ ret' = "clear" /\ UNCHANGED gi
                    ELSE pc' = "fanout" /\ gi' = gi + 1 /\ UNCHANGED ret
  /\ UNCHANGED <<caller, remoteVars, ledgerVars, run, exc, cacheVars, genVars, cur,
                 track, pl, clientVars, log, histVars, delivered>>

\* __add_track_to_playlists: the loop over t.genres is over
TrackDone ==
  /\ pc = "fanout"
  /\ track.genres # << >>
  /\ gi > Len(track.genres)
  /\ pc' = "next"
  /\ UNCHANGED <<caller, remoteVars, ledgerVars, run, exc, cacheVars, tracks_to_add,
                 genVars, itemVars, pl, ret, clientVars, log, histVars, delivered>>

\* Playlist.flush: `if len(self.tracks_to_add)`, then sp.playlist_add_items
Flush ==
  /\ pc = "flush"
  /\ IF BufferEmpty(tracks_to_add[pl])
       THEN pc' = ret /\ UNCHANGED <<exc, log, histVars>>
       ELSE \E ok \in Outcomes :
              /\ log' = Append(log, Ev("append", pl, Urns(tracks_to_add[pl]), ok))
              /\ appended' = Append(appended, Ev("append", pl, Urns(tracks_to_add[pl]), ok))
              /\ IF ok THEN pc' = "callback" /\ UNCHANGED <<exc, failures, kills>>
                       ELSE RemoteFailure
  /\ UNCHANGED <<caller, remoteVars, ledgerVars, run, cacheVars, tracks_to_add, genVars,
                 itemVars, pl, ret, clientVars, delivered>>

\* Playlist.flush: self.flush_callback(self.id_, self.tracks_to_add), then
\* sleep(SLEEPER); flush returns with tracks_to_add as it was
FlushCallback ==
  /\ pc = "callback"
  /\ playlist_track' = flush_callback(playlist_track, pl, tracks_to_add[pl])
  /\ log' = Append(log, Sleep)
  /\ pc' = ret
  /\ UNCHANGED <<caller, remoteVars, genreless_track, run, exc, cacheVars, tracks_to_add,
                 genVars, itemVars, pl, ret, clientVars, histVars, delivered>>

\* The process is ended from outside (signal, power loss) inside
\* Playlist.flush after sp.playlist_add_items returned: before the callback
\* runs or inside its loop, after k calls of record_playlist_track (each
\* insert is committed on its own).  kills notes the tracks of the batch
\* that no record_playlist_track call was made for.
Kill ==
  /\ caller = "ListMaker"
  /\ pc = "callback"
  /\ failures + Len(kills) < MaxFailures
  /\ \E k \in 0..Min(MaxKillRows, Len(tracks_to_add[pl]) - 1) :
       /\ playlist_track' =
            flush_callback(playlist_track, pl, SubSeq(tracks_to_add[pl], 1, k))
       /\ kills' = Append(kills,
            [run |-> run, playlist |-> pl,
             lost |-> {tracks_to_add[pl][i] : i \in 1..Len(tracks_to_add[pl])}
                      \ {tracks_to_add[pl][i] : i \in 1..k}])
  /\ Raise("Killed")
  /\ UNCHANGED <<caller, remoteVars, genreless_track, run, cacheVars, tracks_to_add,
                 genVars, itemVars, pl, ret, clientVars, log, appended, failures,
                 delivered>>

\* Playlist.add_track: `self.tracks_to_add = []` after self.flush() returned
Clear ==
  /\ pc = "clear"
  /\ tracks_to_add' = [tracks_to_add EXCEPT ![pl] = << >>]
  /\ IF caller = "ListMaker"
       THEN pc' = "fanout" /\ gi' = gi + 1
       ELSE pc' = "client" /\ UNCHANGED gi
  /\ UNCHANGED <<caller, remoteVars, ledgerVars, run, exc, cacheVars, genVars, cur,
                 track, pl, ret, clientVars, log, histVars, delivered>>

\* ListMaker.__flush: `self.playlist_cache.items()`.  SpotifyCache defines
\* keys, __getitem__ and __setitem__ and no items: the attribute lookup
\* raises AttributeError before any Playlist.flush() is called.
FinalFlush ==
  /\ pc = "final"
  /\ Raise("AttributeError")
  /\ UNCHANGED <<caller, remoteVars, ledgerVars, run, cacheVars, tracks_to_add, genVars,
                 itemVars, pl, ret, clientVars, log, histVars, delivered>>

\* ------------------------------------------- a direct client of Playlist
\* client: pl.add_track(t) with a track not added before
ClientAddTrack ==
  /\ pc = "client"
  /\ calls.add < BatchCap + MaxClientAdds
  /\ LET t == calls.add + 1
         buf == Append(tracks_to_add[pl], t)
     IN /\ tracks_to_add' = [tracks_to_add EXCEPT ![pl] = buf]
        /\ calls' = [calls EXCEPT !.add = t]
        /\ last' = [op |-> "add_track", buf |-> tracks_to_add[pl], logLen |-> Len(log),
                   rows |-> playlist_track]
        /\ IF BatchFull(buf)
             THEN pc' = "flush" /\ ret' = "clear"
             ELSE pc' = "client" /\ UNCHANGED ret
  /\ UNCHANGED <<caller, remoteVars, ledgerVars, run, exc, cacheVars, genVars, itemVars,
                 pl, log, histVars, delivered>>

\* client: pl.flush()
ClientFlush ==
  /\ pc = "client"
  /\ calls.flush < MaxClientFlush
  /\ Len(tracks_to_add[pl]) <= MaxFlushAt
  /\ calls' = [calls EXCEPT !.flush = @ + 1]
  /\ last' = [op |-> "flush", buf |-> tracks_to_add[pl], logLen |-> Len(log),
              rows |-> playlist_track]
  /\ pc' = "flush"
  /\ ret' = "client"
  /\ UNCHANGED <<caller, remoteVars, ledgerVars, run, exc, cacheVars, tracks_to_add,
                 genVars, itemVars, pl, log, histVars, delivered>>

Next ==
  \/ StartRun
  \/ PlaylistsPage
  \/ TracksPage
  \/ NextItem
  \/ GetArtist
  \/ GetAlbum
  \/ NoGenre
  \/ LookupPlaylist
  \/ CheckAndAdd
  \/ TrackDone
  \/ Flush
  \/ FlushCallback
  \/ Kill
  \/ Clear
  \/ FinalFlush

Spec == Init /\ [][Next]_vars

NextPlaylist ==
  \/ ClientAddTrack
  \/ ClientFlush
  \/ Flush
  \/ FlushCallback
  \/ Clear

SpecPlaylist == InitPlaylist /\ [][NextPlaylist]_vars

\* ------------------------------------------------------------ properties
\* the append calls of all runs (positions in appended) and of this run
\* (positions in log), the playlist creations of this run
AllAppendCalls == 1..Len(appended)
AppendCalls == {i \in 1..Len(log) : log[i].op = "append"}
CreateCalls == {i \in 1..Len(log) : log[i].op = "create"}
NoRemoteFailure == failures = 0 /\ kills = << >>

\* build_playlists was left by something other than a failed remote call
RunOver == pc = "exit" /\ exc \notin {"RemoteCallFailure", "Killed"}

\* the append calls to playlist p that carry track t, over all runs
Carrying(p, t) ==
  {i \in AllAppendCalls :
     appended[i].key = p /\ \E a \in 1..Len(appended[i].arg) : appended[i].arg[a] = TrackUrn(t)}

\* C1: over runs without a failed remote call that share the ledger, a
\* (playlist, track) pair is carried by at most one append call, and by
\* that call once: no URN twice in one batch, in two batches of a run or in
\* batches of two runs.
C1_AppendedAtMostOnce ==
  NoRemoteFailure =>
    \A i \in AllAppendCalls : \A j \in AllAppendCalls :
      \A a \in 1..Len(appended[i].arg) : \A b \in 1..Len(appended[j].arg) :
        (appended[i].key = appended[j].key /\ appended[i].arg[a] = appended[j].arg[b])
          => (i = j /\ a = b)

\* C2: when a run ends without a failed remote call, every track that is in
\* a pending buffer has been sent to that playlist in an append call of the
\* run (the final phase flushed every cached playlist).
C2_FinalFlushSendsAll ==
  RunOver =>
    \A p \in DOMAIN tracks_to_add : \A k \in 1..Len(tracks_to_add[p]) :
      \E i \in Carrying(p, tracks_to_add[p][k]) : appended[i].run = run /\ appended[i].ok

\* C3: empty ledger, no existing playlists, one saved track whose album has
\* the single genre "rock": the run creates exactly one playlist, named
\* "Liked Songs: rock", issues exactly one append call, to that playlist with
\* exactly the track's URN, and leaves exactly one playlist_track row.
C3_EndToEnd ==
  (/\ run = 1
   /\ RunOver
   /\ delivered.playlists = << >>
   /\ Len(saved) = 1
   /\ AlbumGenres(saved[1].album) = <<"rock">>)
  => /\ Cardinality(CreateCalls) = 1
     /\ \A i \in CreateCalls : log[i].key = <<"Liked Songs:", " ", "rock">>
     /\ Cardinality(AppendCalls) = 1
     /\ \A i \in AppendCalls : \A c \in CreateCalls :
          /\ log[i].key = log[c].arg
          /\ log[i].arg = << <<"spotify", "track", saved[1].id>> >>
          /\ Len(playlist_track) = 1
          /\ playlist_track[1].playlist_id = log[c].arg
          /\ playlist_track[1].track_id = saved[1].id

\* C4: no append call carries more than 100 URNs, no pending buffer holds
\* more than 100 tracks, and a buffer of exactly 100 exists only inside the
\* add_track that filled it: that add_track sends the 100 in one append call
\* and empties the buffer before it returns.
C4_BatchCap ==
  /\ \A i \in AllAppendCalls : Len(appended[i].arg) <= 100
  /\ \A p \in DOMAIN tracks_to_add :
       /\ Len(tracks_to_add[p]) <= 100
       /\ Len(tracks_to_add[p]) = 100 =>
            /\ pc \in {"flush", "callback", "clear", "exit"}
            /\ p = pl
  /\ pc = "clear" =>
       /\ log[Len(log) - 1].op = "append"
       /\ log[Len(log) - 1].ok
       /\ log[Len(log) - 1].key = pl
       /\ log[Len(log) - 1].arg = Urns(tracks_to_add[pl])
  /\ (caller = "client" /\ pc = "client" /\ last.op = "add_track" /\ Len(last.buf) = 99)
       => tracks_to_add[pl] = << >>

\* C4 witness: the 100th add_track has returned, the batch of 100 was sent
\* and the next track sits alone in the buffer
C4_Witness ==
  /\ caller = "client"
  /\ pc = "client"
  /\ calls.add = 101
  /\ tracks_to_add[pl] = <<101>>
  /\ \E i \in AllAppendCalls : Len(appended[i].arg) = 100 /\ appended[i].ok

\* C5: when flush() has returned from a call on a non-empty buffer, the
\* buffer is empty and the call issued exactly one append call, carrying the
\* URNs of the buffered tracks in insertion order.
C5_FlushThenClear ==
  (caller = "client" /\ pc = "client" /\ last.op = "flush" /\ last.buf # << >>)
  => /\ tracks_to_add[pl] = << >>
     /\ Cardinality({i \in AppendCalls : i > last.logLen}) = 1
     /\ \A i \in AppendCalls : i > last.logLen => log[i].arg = Urns(last.buf)

\* the genres the Track of a saved entry resolves to
GenresOf(e) == SetGenres(AlbumGenres(e.album), ArtistGenres(e.artist))

\* C6: after two runs in a row without a failed remote call over the same
\* saved tracks, the second with the ledger of the first, every track T and
\* every genre G of T have exactly one append call, over both runs, that
\* carries T's URN to the playlist "Liked Songs: G".
C6_RerunIdempotent ==
  (run = 2 /\ RunOver /\ NoRemoteFailure) =>
    \A k \in 1..Len(saved) : \A g \in 1..Len(GenresOf(saved[k])) :
      /\ PlaylistName(GenresOf(saved[k])[g]) \in DOMAIN playlist_cache
      /\ Cardinality(Carrying(playlist_cache[PlaylistName(GenresOf(saved[k])[g])],
                              saved[k].id)) = 1

\* saved tracks whose album and artist both have no genre
Genreless(e) == AlbumGenres(e.album) = << >> /\ ArtistGenres(e.artist) = << >>
GenrelessIds == {saved[k].id : k \in {n \in 1..Len(saved) : Genreless(saved[n])}}
GenrelessRows(t) == {i \in 1..Len(genreless_track) : genreless_track[i].track_id = t}

C7_State ==
  /\ \A t \in GenrelessIds :
       /\ Cardinality(GenrelessRows(t)) <= 1
       /\ \A p \in DOMAIN tracks_to_add : \A k \in 1..Len(tracks_to_add[p]) :
            tracks_to_add[p][k] # t
       /\ \A i \in AllAppendCalls : \A a \in 1..Len(appended[i].arg) :
            appended[i].arg[a] # TrackUrn(t)
       /\ pc = "final" => Cardinality(GenrelessRows(t)) = 1
  /\ (\A k \in 1..Len(saved) : Genreless(saved[k])) => CreateCalls = {}

C7_Step ==
  (pc = "fanout" /\ Genreless(cur)) =>
    /\ pc' = "next"
    /\ exc' = "none"
    /\ Cardinality({i \in 1..Len(genreless_track') : genreless_track'[i].track_id = cur.id}) = 1
    /\ log' = log
    /\ appended' = appended
    /\ remotePlaylists' = remotePlaylists
    /\ tracks_to_add' = tracks_to_add
    /\ playlist_track' = playlist_track

\* C7: a saved track whose album and artist have no genre gets one row in
\* genreless_track, never a second one in any run, is in no pending buffer
\* and in no append call, causes no playlist creation, and its handling
\* raises nothing: the generator is asked for the next item.
C7_GenrelessRecorded == []C7_State /\ [][C7_Step]_vars

\* C7 witness: the second run met the genreless first track again and went
\* on to the second track; the enumeration is over
C7_Witness ==
  /\ run = 2
  /\ pc = "final"
  /\ Len(saved) = 2
  /\ Genreless(saved[1])
  /\ ~Genreless(saved[2])
  /\ Len(genreless_track) = 1
  /\ delivered.tracks = saved

\* the page requests of a listing in a run, in order
PageCalls(k, r) == SelectSeq(log, LAMBDA e : e.op = "page" /\ e.key = k /\ e.run = r)

RECURSIVE ItemsOf(_)
ItemsOf(calls_) == IF calls_ = << >> THEN 0 ELSE Head(calls_).arg[3] + ItemsOf(Tail(calls_))

\* C8: the page requests of a listing have limit 50 and offsets 0, 50,
\* 100, ...; none follows a request that returned no items; the items of the
\* pages are handed out once each, in listing order, all of them before the
\* next page is requested.
C8_Pagination ==
  /\ \A k \in {"playlists", "tracks"} :
       \A n \in 1..Len(PageCalls(k, run)) :
         /\ PageCalls(k, run)[n].arg[1] = 50
         /\ PageCalls(k, run)[n].arg[2] = 50 * (n - 1)
         /\ n < Len(PageCalls(k, run)) =>
              PageCalls(k, run)[n].ok /\ PageCalls(k, run)[n].arg[3] > 0
  /\ delivered.tracks = SubSeq(saved, 1, Len(delivered.tracks))
  /\ delivered.playlists = SubSeq(remotePlaylists, 1, Len(delivered.playlists))
  /\ run >= 1 => Len(delivered.playlists) = ItemsOf(PageCalls("playlists", run))
  /\ pc \in {"tracks", "final"} => Len(delivered.tracks) = ItemsOf(PageCalls("tracks", run))
  /\ pc = "final" => delivered.tracks = saved

\* C8 witness: a listing of more than two pages was read to its empty page
C8_Witness ==
  /\ pc = "final"
  /\ Len(saved) > 100
  /\ Len(PageCalls("tracks", run)) = 4
  /\ PageCalls("tracks", run)[4].arg = <<50, 150, 0>>

\* C9: the genres of the constructed Track are the album's when the album
\* has any, and otherwise those of the first listed artist.
C9_GenreFallback ==
  (caller = "ListMaker" /\ pc \in {"fanout", "check", "flush", "callback", "clear"}) =>
    /\ track.id = cur.id
    /\ AlbumGenres(cur.album) # << >> => track.genres = AlbumGenres(cur.album)
    /\ AlbumGenres(cur.album) = << >> => track.genres = ArtistGenres(cur.artist)

\* C9 witness: album and artist both have genres, and they differ
C9_Witness ==
  /\ pc = "fanout"
  /\ AlbumGenres(cur.album) = <<"rock">>
  /\ ArtistGenres(cur.artist) = <<"pop">>
  /\ track.genres = <<"rock">>

\* C10: in one run no key is fetched twice by a cache (artist, album,
\* playlist creation); no playlist is created under a name that phase 1 of
\* the run found among the user's playlists; a lookup hands out the stored
\* playlist.
C10_FetchOncePerKey ==
  /\ \A i \in 1..Len(log) : \A j \in 1..Len(log) :
       (/\ log[i].op \in {"artist", "album", "create"}
        /\ log[i].op = log[j].op
        /\ log[i].key = log[j].key
        /\ log[i].run = log[j].run) => i = j
  /\ \A i \in CreateCalls :
       \A j \in 1..Len(delivered.playlists) : delivered.playlists[j].name # log[i].key
  /\ pc = "check" => pl = playlist_cache[PlaylistName(track.genres[gi])]

\* C10 witness: two tracks of one artist and one album were looked up, and
\* their genre playlist was found in phase 1
C10_Witness ==
  /\ pc = "final"
  /\ Len(saved) = 2
  /\ saved[1].artist = saved[2].artist
  /\ saved[1].album = saved[2].album
  /\ Len(delivered.playlists) = 4
  /\ delivered.playlists[1] = [id |-> 1, name |-> <<"Liked Songs:", " ", "rock">>]
  /\ Len(tracks_to_add[1]) = 2
  /\ CreateCalls = {}

\* the pair (p, t) is a row of table playlist_track
InLedger(p, t) ==
  \E r \in 1..Len(playlist_track) :
     playlist_track[r].playlist_id = p /\ playlist_track[r].track_id = t

\* the pairs <<playlist id, track id>> of the rows of playlist_track
LedgerPairs ==
  {<<playlist_track[r].playlist_id, playlist_track[r].track_id>> : r \in 1..Len(playlist_track)}

\* the pairs <<playlist id, track id>> that the append call ev carried
PairsOf(ev) == {<<ev.key, ev.arg[a][3]>> : a \in 1..Len(ev.arg)}

\* the pairs carried by the append calls of all runs that returned
SentPairs == UNION {PairsOf(appended[i]) : i \in {k \in AllAppendCalls : appended[k].ok}}

\* an append on p that returned before the latest append call carried urn
SentBefore(p, urn) ==
  \E i \in AllAppendCalls :
     /\ i < Len(appended)
     /\ appended[i].ok
     /\ appended[i].key = p
     /\ \E b \in 1..Len(appended[i].arg) : appended[i].arg[b] = urn

\* C11: a ledger row (playlist_id, track_id) is there only when a
\* playlist_add_items call on that playlist carrying that track has
\* returned.  When the append of a batch raised, the run is over and the
\* tracks of the batch have no row (unless an earlier append that returned
\* carried them); the same holds while the append has returned and the
\* callback has not run yet.
C11_RecordAfterAppend ==
  /\ LedgerPairs \subseteq SentPairs
  /\ (Len(log) >= 1 /\ log[Len(log)].op = "append") =>
       LET call == log[Len(log)]
       IN /\ ~call.ok => pc = "exit" /\ exc = "RemoteCallFailure"
          /\ (~call.ok \/ pc = "callback") =>
               \A a \in 1..Len(call.arg) :
                  InLedger(call.key, call.arg[a][3]) => SentBefore(call.key, call.arg[a])

\* C11 witness: the append of a full batch returned and the callback has
\* recorded its 100 pairs
C11_Witness ==
  /\ pc = "clear"
  /\ Len(log) >= 2
  /\ log[Len(log) - 1].op = "append"
  /\ log[Len(log) - 1].ok
  /\ Len(log[Len(log) - 1].arg) = BatchCap
  /\ \A a \in 1..BatchCap : InLedger(pl, log[Len(log) - 1].arg[a][3])

\* C12: a track is put into the buffer of playlist p only when, at that
\* moment, the ledger has no row (p, track id); while the run goes on no
\* buffer holds a track whose pair is recorded (but for the batch just
\* recorded, until add_track clears it), so no recorded pair is sent.
C12_State ==
  /\ pc \notin {"clear", "exit"} =>
       \A p \in DOMAIN tracks_to_add : \A k \in 1..Len(tracks_to_add[p]) :
          ~InLedger(p, tracks_to_add[p][k])
  /\ pc = "flush" =>
       \A k \in 1..Len(tracks_to_add[pl]) : ~InLedger(pl, tracks_to_add[pl][k])

C12_Step ==
  \A p \in DOMAIN tracks_to_add :
     (p \in DOMAIN tracks_to_add' /\ Len(tracks_to_add'[p]) > Len(tracks_to_add[p])) =>
        /\ pc = "check"
        /\ p = pl
        /\ tracks_to_add'[p] = Append(tracks_to_add[p], track.id)
        /\ ~InLedger(p, track.id)

C12_GatedByLedger == []C12_State /\ [][C12_Step]_vars

\* C12 witness: the second run went through a library whose first 100
\* tracks the first run recorded; only the tracks beyond them are buffered
C12_Witness ==
  /\ run = 2
  /\ pc = "final"
  /\ Len(playlist_track) = BatchCap
  /\ Len(delivered.tracks) = BatchCap + BigExtra
  /\ \E p \in DOMAIN tracks_to_add :
        /\ Len(tracks_to_add[p]) = BigExtra
        /\ \A k \in 1..BatchCap : InLedger(p, delivered.tracks[k].id)

\* C13: flush() called on an empty buffer issues no remote call, runs no
\* callback, writes no ledger row and leaves the buffer empty, also when it
\* is called again and again.
C13_EmptyFlushNoOp ==
  (caller = "client" /\ last.op = "flush" /\ last.buf = << >>) =>
     /\ pc \in {"flush", "client"}
     /\ Len(log) = last.logLen
     /\ playlist_track = last.rows
     /\ tracks_to_add[pl] = << >>

\* C13 witness: two flush() calls on the empty buffer have returned
C13_Witness ==
  /\ caller = "client"
  /\ pc = "client"
  /\ calls.add = 0
  /\ calls.flush = 2
  /\ last.op = "flush"
  /\ last.buf = << >>

\* C14: every remote call of a run that returned is followed by the pacing
\* delay before the next remote call: no two remote calls stand next to
\* each other in the run's log without a sleep between them.
C14_PacedCalls ==
  \A i \in 1..(Len(log) - 1) :
     log[i].op # "sleep" => log[i + 1].op = "sleep"

\* C15: record_playlist_track and record_genreless_track are idempotent
\* inserts.  No table ever holds two rows of one pair (of one genreless
\* track id); every step keeps the rows that are there, as they are; a
\* callback adds one row per pair of its batch that was not recorded and
\* none for a pair that was, and a genreless track that is recorded adds
\* none; neither call raises to its caller.
C15_State ==
  /\ Cardinality(LedgerPairs) = Len(playlist_track)
  /\ \A i \in 1..Len(genreless_track) : \A j \in 1..Len(genreless_track) :
       genreless_track[i].track_id = genreless_track[j].track_id => i = j

C15_Step ==
  /\ Len(playlist_track') >= Len(playlist_track)
  /\ SubSeq(playlist_track', 1, Len(playlist_track)) = playlist_track
  /\ Len(genreless_track') >= Len(genreless_track)
  /\ SubSeq(genreless_track', 1, Len(genreless_track)) = genreless_track
  /\ (pc = "callback" /\ pc' # "exit") =>
       /\ exc' = "none"
       /\ Len(playlist_track') - Len(playlist_track) =
            Cardinality({tracks_to_add[pl][k] : k \in 1..Len(tracks_to_add[pl])}
                        \ {t \in 1..(BatchCap + BigExtra + MaxClientAdds) : InLedger(pl, t)})
  /\ (pc = "fanout" /\ track.genres = << >>) =>
       /\ pc' = "next"
       /\ exc' = "none"
       /\ (\E i \in 1..Len(genreless_track) : genreless_track[i].track_id = track.id)
            => genreless_track' = genreless_track

C15_IdempotentInserts == []C15_State /\ [][C15_Step]_vars

\* C15 witness: a batch that held every track twice was recorded, one row
\* per pair
C15_Witness ==
  /\ pc = "clear"
  /\ Len(tracks_to_add[pl]) = BatchCap
  /\ tracks_to_add[pl][1] = tracks_to_add[pl][2]
  /\ Len(playlist_track) = BatchCap \div 2
  /\ InLedger(pl, tracks_to_add[pl][1])

\* C16: a remote call that raises is the last thing its run does: it is
\* not retried and not swallowed, the run is over with that failure, no
\* remote call follows it and no ledger row is written after it; a cache
\* whose fetch raised holds nothing under the requested key.
C16_State ==
  /\ \A i \in 1..Len(log) :
       ~log[i].ok => /\ i = Len(log)
                     /\ pc = "exit"
                     /\ exc = "RemoteCallFailure"
  /\ (Len(log) >= 1 /\ ~log[Len(log)].ok) =>
       LET call == log[Len(log)]
       IN /\ call.op = "artist" => call.key \notin DOMAIN artist_cache
          /\ call.op = "album" => call.key \notin DOMAIN album_cache
          /\ call.op = "create" => call.key \notin DOMAIN playlist_cache

C16_Step ==
  pc = "exit" => /\ run' = run + 1
                 /\ playlist_track' = playlist_track
                 /\ genreless_track' = genreless_track

C16_FailureEndsRun == []C16_State /\ [][C16_Step]_vars

\* C16 witness: the creation of a genre playlist raised; the run is over and
\* the playlist cache has no entry for the name
C16_Witness ==
  /\ pc = "exit"
  /\ exc = "RemoteCallFailure"
  /\ Len(log) >= 1
  /\ log[Len(log)].op = "create"
  /\ ~log[Len(log)].ok
  /\ log[Len(log)].key \notin DOMAIN playlist_cache

\* the phase of build_playlists the process is in (0 before main(), 4 after)
Phase ==
  CASE pc = "idle" -> 0
    [] pc = "playlists" -> 1
    [] pc \in {"tracks", "next", "artist", "album", "fanout", "check", "flush",
               "callback", "clear"} -> 2
    [] pc = "final" -> 3
    [] OTHER -> 4

\* the requests of this run for a page of listing k (positions in log)
PageRequests(k) == {i \in 1..Len(log) : log[i].op = "page" /\ log[i].key = k}

\* the requests of this run that the listing k answered with an empty page
EmptyPages(k) == {i \in PageRequests(k) : log[i].ok /\ log[i].arg[3] = 0}

\* C17: a run goes through its three phases in order and never back.  No
\* saved-track page is requested before the playlist listing returned its
\* empty page; after the first saved-track page request no playlist page is
\* requested; artist, album, creation and append calls come after the first
\* saved-track page request and before the empty saved-track page; the
\* final flush starts only when the saved-track listing has returned its
\* empty page, which is then the last call of the log.
C17_State ==
  /\ \A j \in PageRequests("tracks") :
       /\ \E i \in EmptyPages("playlists") : i < j
       /\ \A i \in PageRequests("playlists") : i < j
  /\ \A i \in 1..Len(log) :
       log[i].op \in {"artist", "album", "create", "append"} =>
         /\ \E j \in PageRequests("tracks") : j < i
         /\ \A j \in EmptyPages("tracks") : i < j
  /\ Phase \in {2, 3} => EmptyPages("playlists") # {}
  /\ Phase <= 1 => PageRequests("tracks") = {}
  /\ (pc = "final" \/ exc = "AttributeError") => Len(log) \in EmptyPages("tracks")
  /\ Phase <= 2 => EmptyPages("tracks") = {}

C17_Step == run' = run => Phase' >= Phase

C17_PhaseOrder == []C17_State /\ [][C17_Step]_vars

\* C17 witness: a run found four playlists in phase 1, went through two
\* saved tracks in phase 2 and stands at the start of the final flush
C17_Witness ==
  /\ pc = "final"
  /\ Len(delivered.playlists) = 4
  /\ Len(delivered.tracks) = 2
  /\ Cardinality(PageRequests("playlists")) = 2
  /\ Cardinality(PageRequests("tracks")) = 2

\* the number of append calls on p that returned and carried track t
TimesSent(p, t) ==
  Cardinality({i \in AllAppendCalls :
                 /\ appended[i].ok
                 /\ appended[i].key = p
                 /\ \E a \in 1..Len(appended[i].arg) :
                      appended[i].arg[a] = <<"spotify", "track", t>>})

\* C18: a run was killed after the append of a batch returned and before
\* the ledger row of some track T of the batch was written.  The next run
\* over the same saved tracks starts with no row (playlist, T), and when it
\* is over without a failure T has been appended to the playlist a second
\* time.
C18_KilledBatchSentAgain ==
  (Len(kills) = 1 /\ run = kills[1].run + 1) =>
     \A t \in kills[1].lost :
        /\ pc = "playlists" => ~InLedger(kills[1].playlist, t)
        /\ (RunOver /\ failures = 0) => TimesSent(kills[1].playlist, t) >= 2

\* the name the remote account has for the playlist with this id
RemoteName(id) ==
  remotePlaylists[CHOOSE j \in 1..Len(remotePlaylists) : remotePlaylists[j].id = id].name

\* the name begins with the token "Liked Songs:"
HasPrefix(name) == name # << >> /\ Head(name) = "Liked Songs:"

\* the playlists that PlaylistCache holds
CachedIds == {playlist_cache[k] : k \in DOMAIN playlist_cache}

\* Appends go only to playlists whose name, as NameOf reads it, has the
\* prefix: those that phase 1 of the run found with it or that the run
\* created; a playlist of the account without it is not in PlaylistCache and
\* no append call of any run names it.
PrefixedOnly(NameOf(_)) ==
  /\ \A i \in AllAppendCalls : HasPrefix(NameOf(RemoteName(appended[i].key)))
  /\ \A i \in AppendCalls :
       \/ \E j \in 1..Len(delivered.playlists) :
             /\ delivered.playlists[j].id = log[i].key
             /\ HasPrefix(NameOf(delivered.playlists[j].name))
       \/ \E c \in CreateCalls : c < i /\ log[c].ok /\ log[c].arg = log[i].key
  /\ \A j \in 1..Len(remotePlaylists) :
       ~HasPrefix(NameOf(remotePlaylists[j].name)) =>
          /\ remotePlaylists[j].id \notin CachedIds
          /\ \A i \in AllAppendCalls : appended[i].key # remotePlaylists[j].id

\* the name as the account has it
AsListed(name) == name

\* C19 (as stated): playlist_add_items is only called on a playlist whose
\* name starts with "Liked Songs:", found in phase 1 with the prefix or
\* created by the run; a playlist of the user whose name does not start with
\* the prefix is never in PlaylistCache and never receives an append.
C19_PrefixedOnly == PrefixedOnly(AsListed)

\* C19 (amended): the same with every name read after surrounding
\* whitespace is stripped, as Playlist.__init__ and the filter of phase 1
\* read it: a playlist whose stripped name does not start with the prefix is
\* never in PlaylistCache and never receives an append.
C19_StrippedPrefixedOnly == PrefixedOnly(Strip)

\* C19 witness: next to a playlist of another kind, a full batch was
\* appended to the genre playlist found in phase 1, and the other playlist
\* is not in the cache
C19_Witness ==
  /\ pc = "clear"
  /\ remotePlaylists = UserPlaylists
  /\ AppendCalls # {}
  /\ pl \in CachedIds
  /\ 3 \notin CachedIds
  /\ ~HasPrefix(Strip(RemoteName(3)))

\* C20: in a run that is not killed, the pairs of every append call that
\* returned are in the ledger at every point from which the next remote
\* call can be issued; rows are written by the callback only and are pairs
\* of the batch just sent, so the ledger the dedup check reads holds the
\* pairs that were there when the run began and the pairs of the batches
\* the run has sent: with no kill in any run, exactly the pairs sent.
C20_State ==
  /\ (pc # "callback" /\ exc # "Killed") =>
       \A i \in AppendCalls : log[i].ok => PairsOf(log[i]) \subseteq LedgerPairs
  /\ (pc = "check" /\ kills = << >>) => LedgerPairs = SentPairs

C20_Step ==
  playlist_track' # playlist_track =>
     /\ pc = "callback"
     /\ log[Len(log)].op = "append"
     /\ log[Len(log)].ok
     /\ LedgerPairs' \subseteq LedgerPairs \cup PairsOf(log[Len(log)])
     /\ pc' # "exit" => LedgerPairs' = LedgerPairs \cup PairsOf(log[Len(log)])

C20_LedgerTracksSent == []C20_State /\ [][C20_Step]_vars

\* C20 witness: the dedup check is consulted after the run has sent and
\* recorded a full batch
C20_Witness ==
  /\ pc = "check"
  /\ kills = << >>
  /\ \E i \in AppendCalls : log[i].ok /\ Len(log[i].arg) = BatchCap
  /\ Cardinality(LedgerPairs) = BatchCap

====
